---- MODULE Spec2Model ----
(***************************************************************************)
(* A model of the dataset acquisition pipeline of the image classifier.    *)
(*                                                                         *)
(* Part I  : core/dataset_manager.py (DatasetManager: download_images,     *)
(*           _download_category, refill_categories, remove_duplicates,     *)
(*           remove_corrupted) together with the review tool's deletions.  *)
(*                                                                         *)
(* Part II : interface_adapters/downloaders/bing_downloader.py             *)
(*           (BingDownloader.search_and_download, _download_with_retry)    *)
(*           driven by use_cases/dataset/prepare_dataset.py                *)
(*           (PrepareDatasetUseCase.execute) with the Pillow processor and *)
(*           the filesystem repository.                                    *)
(*                                                                         *)
(* The external image search service is the environment: every call to it  *)
(* ends in one of the outcomes the code distinguishes (an exception, no    *)
(* query folder, or a listing of files, each decodable or not).            *)
(***************************************************************************)
EXTENDS Integers, Sequences, FiniteSets, TLC

(***************************************************************************)
(* Bounds of the model.                                                    *)
(***************************************************************************)
\* config.images_per_category (150 by default) of the run with one category
QuotaOne == 3
\* config.images_per_category of the run with two categories
QuotaTwo == 2
\* config.images_per_search (50 by default), the page size of one search, of the run
\* with one category
PageOne == 2
\* config.images_per_search of the run with two categories
PageTwo == 1
\* the number of distinct pictures the search service can return
MaxPic == 3
\* the max_rounds argument of refill_categories (5 by default)
MaxRounds == 2
\* BingDownloader.max_retries (3 by default)
MaxRetries == 2
\* the images_per_category argument of PrepareDatasetUseCase.execute
ExecQuota == 1
\* the images_per_search argument of PrepareDatasetUseCase.execute
ExecPage == 2
\* the number of file names the search service gives to what it downloads
MaxName == 2
\* the number of distinct pictures the search service can return to execute
ExecPics == 1
\* the number of modifiers _randomize_query chooses from (10 in the code)
NumModifiers == 2
\* the length of the strings a Category is made of
MaxLen == 3
\* the largest value given to a count of the AppConfig
MaxCount == 1
\* the number of items given to batch_process
MaxBatch == 3

(***************************************************************************)
(* Program constants.                                                      *)
(***************************************************************************)
\* the three base queries built per category
NumQueries == 3
\* for _ in range(3): the search calls made per base query
NumAttempts == 3

\* for attempt in range(3): the query attempts of search_and_download
NumQueryAttempts == 3
\* BingDownloader.sleep_time
SleepTime == 2

\* category names are sequences of characters
OneCategory == << <<"d">> >>

TwoCategories == << <<"d">>, <<"D">> >>

\* the Config objects the DatasetManager is run with
Configs ==
    {[categories |-> OneCategory, images_per_category |-> QuotaOne,
      images_per_search |-> PageOne, remove_duplicates |-> b] : b \in BOOLEAN}
    \cup {[categories |-> TwoCategories, images_per_category |-> QuotaTwo,
          images_per_search |-> PageTwo, remove_duplicates |-> b] : b \in BOOLEAN}

(***************************************************************************)
(* Files.  A folder is a function from file names to file contents; the    *)
(* DatasetManager names its files <n>.jpg, so a name is the integer n.     *)
(* What the search service delivers is a raw item: 0 is a file that does   *)
(* not decode, p > 0 is a decodable file showing picture p.                *)
(***************************************************************************)
Corrupt == 0

RawItems == 0..MaxPic

\* the bytes of a stored file that does not decode
CorruptBytes == [pic |-> 0, form |-> "corrupt"]

EmptyFolder == [n \in {} |-> CorruptBytes]

\* img.convert("RGB"); img.resize((400, 400)); img.save(path, "JPEG")
SavedJpeg(raw) == [pic |-> raw, form |-> "rgb400"]

\* hashlib.md5(f.read()).hexdigest()
Md5(bytes) == <<"md5", bytes>>

\* verify_images: the files that fail to decode
FailsVerify(bytes) == bytes.form = "corrupt"

WriteFile(f, n, bytes) == [k \in DOMAIN f \cup {n} |-> IF k = n THEN bytes ELSE f[k]]

Unlink(f, S) == [k \in DOMAIN f \ S |-> f[k]]

\* len(list(category_path.glob("*.jpg")))
JpgCount(f) == Cardinality(DOMAIN f)

Hashes(f) == {Md5(f[n]) : n \in DOMAIN f}

\* every order in which a directory scan may yield the names of S
Perms(S) == {s \in [1..Cardinality(S) -> S] : \A i, j \in 1..Cardinality(S) : i # j => s[i] # s[j]}

\* what one search call with the given limit can leave in its query folder, in glob order
Listings(limit) == UNION {[1..n -> RawItems] : n \in 0..limit}

\* downloader.download raises, or returns without a query folder, or with one
SearchOutcomes(limit) ==
    {[kind |-> "error", listing |-> <<>>], [kind |-> "nofolder", listing |-> <<>>]}
        \cup {[kind |-> "ok", listing |-> l] : l \in Listings(limit)}

VARIABLES
    config,             \* the Config of the DatasetManager
    files,              \* the dataset tree: category -> folder
    dmPc,               \* "idle", "acquire" (inside _download_category)
    caller,             \* "none", "download_images", "refill_categories"
    catIdx,             \* the category the caller's loop is at
    round,              \* round_idx of refill_categories
    categories_filled,  \* the flag of refill_categories
    query,              \* index of the base query of _download_category
    attempt,            \* the position in "for _ in range(3)"
    image_counter,
    images_added,
    needed,
    clobbered,          \* names _download_category saved over an existing file
    lateCalls,          \* search calls of this _download_category made after it had enough
    roundCounts,        \* the .jpg counts measured at the end of each refill round
    lastDedup,          \* what the latest remove_duplicates pass saw and did
    foreign,            \* the categories whose folder was changed by the work done for
                        \* another category since the running or latest operation began
    callRet,            \* the running or latest _download_category: the image_counter it
                        \* was given and, once it has returned to an idle manager, the
                        \* pair it returned and how many of the files it saved are left
    submitted,          \* the latest search call of the running _download_category: the
                        \* base query its loop was at, the base of the string it
                        \* submitted, the number of modifiers appended to it
    callLog,            \* the calls of _download_category made by the running round of
                        \* refill_categories: their categories, and the needed argument
                        \* and the count_existing of the latest one
    goodRun,            \* this refill started with every category below its target and each of
                        \* its search calls delivered a full page of new valid pictures
    refillOutcome       \* "none", "filled", "max_rounds"

dmVars == <<config, files, dmPc, caller, catIdx, round, categories_filled, query, attempt,
            image_counter, images_added, needed, clobbered, lateCalls, roundCounts,
            lastDedup, foreign, callRet, submitted, callLog, goodRun, refillOutcome>>

VARIABLES
    ucPc,               \* "idle", "call" (about to call the search service), "process"
                        \* (search_and_download has returned), "done", "raised"
    ucCat,              \* the position of execute's loop over the categories
    ucAttempt,          \* attempt of search_and_download
    retry,              \* retry of _download_with_retry
    downloaded_paths,   \* downloaded_paths of search_and_download
    tree,               \* the repository's base path: folder name -> folder
    query_to_use,       \* the modifier of the randomised query of the running attempt
    temp_download,      \* folder name -> the temp_download directory in it: whether it
                        \* exists and the query folders it holds
    dwr,                \* the running or latest _download_with_retry: the attempt it serves,
                        \* the outcome of each of its search calls, its backoff waits, its end
    everReturned,       \* some search call of this run returned without an exception
    summary,            \* the counters of execute
    validation          \* the summary ValidateDatasetUseCase.execute returned, and the
                        \* number of files that were in the tree before it and not after

ucVars == <<ucPc, ucCat, ucAttempt, retry, downloaded_paths, tree, query_to_use, temp_download,
            dwr, everReturned, summary, validation>>

VARIABLES
    name_x, name_y,     \* two strings
    cat_x, cat_y,       \* Category(name=name_x), Category(name=name_y)
    cat_xx              \* Category(name=cat_x.name)

catVars == <<name_x, name_y, cat_x, cat_y, cat_xx>>

VARIABLES
    app                 \* the AppConfig of the prepare command: where the command is, the
                        \* arguments the AppConfig was made with, and its fields now

VARIABLES
    tm                  \* a TrainingMetrics and the dict objects around it: the dicts by
                        \* identity, the dict the record holds, the values it was made with

VARIABLES
    batch               \* a call of batch_process: its arguments, what it returned

VARIABLES
    dl                  \* a call of create_dataloader: the dataset path, how the call ended

VARIABLES
    repo                \* a DatasetRepositoryFS: its base_path, the save called on it and
                        \* what the listing and the loads returned after it

auxVars == <<app, tm, batch, dl, repo>>

\* what the steps of one part leave alone
restOfApp == <<dmVars, ucVars, catVars, tm, batch, dl, repo>>

restOfTm == <<dmVars, ucVars, catVars, app, batch, dl, repo>>

restOfBatch == <<dmVars, ucVars, catVars, app, tm, dl, repo>>

restOfDl == <<dmVars, ucVars, catVars, app, tm, batch, repo>>

restOfRepo == <<dmVars, ucVars, catVars, app, tm, batch, dl>>

vars == <<dmVars, ucVars, catVars, auxVars>>

Categories == config.categories

CatSet == {Categories[i] : i \in 1..Len(Categories)}

ImagesPerCategory == config.images_per_category

\* the folders other than that of category own that differ between the trees F and G
ChangedElsewhere(own, F, G) == {c \in DOMAIN F \ {own} : F[c] # G[c]}

NoReturn == [supplied |-> 0, counter |-> 0, added |-> 0, kept |-> 0, done |-> FALSE]

\* lines 80-84: the base queries of a category, without the category in front
Queries == <<"photo", "sun photo", "night photo">>

\* line 97: self._randomise_query(f"{category} photo"), whatever query the loop is at
RandomisedBase(q) == "photo"

\* line 70: f"{base} {random.choice(modifiers)}"
ModifiersAppended == 1

NoSubmit == [made |-> FALSE, query |-> "", base |-> "", modifiers |-> 0]

NoCalls == [cats |-> <<>>, needed |-> 0, count |-> 0]

NoDedup == [ran |-> FALSE, before |-> <<>>, distinct |-> <<>>, removed |-> <<>>, first |-> <<>>]

(***************************************************************************)
(* _download_category                                                      *)
(***************************************************************************)
\* line 90: the test made before each base query
QueryBreak(counter, added, need) == counter > ImagesPerCategory \/ added >= need

\* line 122: the test made before each file of a listing
FileBreakNever(counter, added, need) == FALSE

FileBreak(counter, added, need) == counter > ImagesPerCategory \/ added >= need

\* lines 121-133: the loop over the files of the query folder
RECURSIVE SaveListing(_, _, _, _, _, _)
SaveListing(f, listing, counter, added, need, clob) ==
    IF listing = <<>> \/ FileBreak(counter, added, need)
    THEN [f |-> f, counter |-> counter, added |-> added, clob |-> clob]
    ELSE IF Head(listing) = Corrupt
    THEN SaveListing(f, Tail(listing), counter, added, need, clob)
    ELSE SaveListing(WriteFile(f, counter, SavedJpeg(Head(listing))), Tail(listing),
                     counter + 1, added + 1, need,
                     IF counter \in DOMAIN f THEN clob \cup {counter} ELSE clob)

\* a full page of decodable pictures, pairwise different and none of them on disk
GoodSupply(o, f) ==
    /\ o.kind = "ok"
    /\ Len(o.listing) = config.images_per_search
    /\ \A i \in 1..Len(o.listing) :
          /\ o.listing[i] # Corrupt
          /\ Md5(SavedJpeg(o.listing[i])) \notin Hashes(f)
          /\ \A j \in 1..Len(o.listing) : i # j => o.listing[i] # o.listing[j]

\* needed = needed or config.images_per_category
NeededOrDefault(n) == IF n = 0 THEN ImagesPerCategory ELSE n

EnterDownloadCategory(c, counter, need) ==
    /\ dmPc' = "acquire"
    /\ catIdx' = c
    /\ query' = 1
    /\ attempt' = 0
    /\ image_counter' = counter
    /\ images_added' = 0
    /\ needed' = NeededOrDefault(need)
    /\ clobbered' = {}
    /\ lateCalls' = 0
    /\ callRet' = [NoReturn EXCEPT !.supplied = counter]
    /\ submitted' = NoSubmit

\* lines 96-135: one pass of the inner loop, around one call of downloader.download
SearchCall ==
    /\ dmPc = "acquire"
    /\ query <= NumQueries
    /\ attempt > 0 \/ ~QueryBreak(image_counter, images_added, needed)
    /\ \E o \in SearchOutcomes(config.images_per_search) :
          LET cat == Categories[catIdx]
              r == IF o.kind = "ok"
                   THEN SaveListing(files[cat], o.listing, image_counter, images_added, needed, clobbered)
                   ELSE [f |-> files[cat], counter |-> image_counter, added |-> images_added, clob |-> clobbered]
          IN  /\ files' = [files EXCEPT ![cat] = r.f]
              /\ foreign' = foreign \cup ChangedElsewhere(cat, files, [files EXCEPT ![cat] = r.f])
              /\ image_counter' = r.counter
              /\ images_added' = r.added
              /\ clobbered' = r.clob
              /\ goodRun' = (goodRun /\ GoodSupply(o, files[cat]))
    /\ lateCalls' = IF QueryBreak(image_counter, images_added, needed) THEN lateCalls + 1 ELSE lateCalls
    /\ submitted' = [made |-> TRUE, query |-> Queries[query], base |-> RandomisedBase(Queries[query]),
                     modifiers |-> ModifiersAppended]
    /\ IF attempt + 1 = NumAttempts
       THEN query' = query + 1 /\ attempt' = 0
       ELSE query' = query /\ attempt' = attempt + 1
    /\ lastDedup' = NoDedup
    /\ UNCHANGED <<config, dmPc, caller, catIdx, round, categories_filled, needed,
                   roundCounts, callRet, callLog, refillOutcome>>

(***************************************************************************)
(* remove_corrupted and remove_duplicates                                  *)
(***************************************************************************)
\* failed = verify_images(get_image_files(dataset_path)); failed.map(Path.unlink)
RemoveCorrupted(F) == [c \in DOMAIN F |-> Unlink(F[c], {n \in DOMAIN F[c] : FailsVerify(F[c][n])})]

\* lines 197-205: the scan of one category folder in the order the directory yields
\* line 201 with the path looked up in place of the hash: never found
SeenBeforeByPath(file_hash, hashes) == FALSE

\* line 201: if file_hash in hashes (hashes maps a hash to the first path that had it)
SeenBefore(file_hash, hashes) == file_hash \in DOMAIN hashes

\* the file recorded for the hash is unlinked in place of the one at hand
UnlinkedRecorded(img_path, recorded) == recorded

\* line 203: img_path.unlink()
Unlinked(img_path, recorded) == img_path

\* line 205: hashes[file_hash] = img_path
Remember(hashes, file_hash, img_path) ==
    [h \in DOMAIN hashes \cup {file_hash} |-> IF h = file_hash THEN img_path ELSE hashes[h]]

RECURSIVE ScanDuplicates(_, _, _, _)
ScanDuplicates(f, order, hashes, removed) ==
    IF order = <<>>
    THEN [f |-> f, removed |-> removed]
    ELSE LET img_path == Head(order)
             file_hash == Md5(f[img_path])
         IN  IF SeenBefore(file_hash, hashes)
             THEN ScanDuplicates(Unlink(f, {Unlinked(img_path, hashes[file_hash])}), Tail(order),
                                 hashes, removed + 1)
             ELSE ScanDuplicates(f, Tail(order), Remember(hashes, file_hash, img_path), removed)

\* the paths of a scan that no earlier path of the scan has the bytes of
FirstSeen(f, order) ==
    {order[i] : i \in {k \in 1..Len(order) :
                          \A j \in 1..(k - 1) : f[order[j]] # f[order[k]]}}

\* one result per order in which category_path.glob("*.jpg") can yield the folder
DedupResults(f) ==
    {LET r == ScanDuplicates(f, order, <<>>, 0)
     IN  [f |-> r.f, removed |-> r.removed, first |-> FirstSeen(f, order)] :
        order \in Perms(DOMAIN f)}

\* remove_duplicates over every category: the possible results, one per scan order
RemoveDuplicates(F, toggle) ==
    IF ~toggle
    THEN {[c \in DOMAIN F |-> [f |-> F[c], removed |-> 0, first |-> DOMAIN F[c]]]}
    ELSE {g \in [DOMAIN F -> UNION {DedupResults(F[c]) : c \in DOMAIN F}] :
             \A c \in DOMAIN F : g[c] \in DedupResults(F[c])}

FilesOf(g) == [c \in DOMAIN g |-> g[c].f]

\* the file count and the number of distinct hashes of each category before the pass,
\* the number of files the pass unlinked there, and the files its scan met first
DedupLog(before, g) ==
    [ran |-> TRUE,
     before |-> [c \in DOMAIN before |-> JpgCount(before[c])],
     distinct |-> [c \in DOMAIN before |-> Cardinality(Hashes(before[c]))],
     removed |-> [c \in DOMAIN g |-> g[c].removed],
     first |-> [c \in DOMAIN g |-> g[c].first]]

(***************************************************************************)
(* refill_categories                                                       *)
(***************************************************************************)
Counts(F) == [c \in DOMAIN F |-> JpgCount(F[c])]

\* needed = images_per_category - count_existing
Shortfall(F, i) == ImagesPerCategory - JpgCount(F[Categories[i]])

\* the next category at or after position i, short or not
NextCategory(F, i) == IF i <= Len(Categories) THEN i ELSE 0

\* the next category at or after position i that is short, 0 when there is none
NextShort(F, i) ==
    LET short == {j \in i..Len(Categories) : Shortfall(F, j) > 0}
    IN  IF short = {} THEN 0 ELSE CHOOSE j \in short : \A k \in short : j <= k

\* image_counter = count_existing + 1
RefillCounter(F, i) == JpgCount(F[Categories[i]]) + 1

RefillEnter(F, r, j) ==
    /\ EnterDownloadCategory(j, RefillCounter(F, j), Shortfall(F, j))
    /\ round' = r
    /\ categories_filled' = FALSE
    /\ caller' = "refill_categories"
    /\ refillOutcome' = "none"
    /\ callLog' = [cats |-> IF caller = "refill_categories" /\ r = round
                            THEN Append(callLog.cats, j) ELSE <<j>>,
                   needed |-> Shortfall(F, j),
                   count |-> JpgCount(F[Categories[j]])]

\* no operation is running: the locals of the finished one are gone
Idle ==
    /\ dmPc' = "idle"
    /\ caller' = "none"
    /\ catIdx' = 1
    /\ round' = 0
    /\ categories_filled' = TRUE
    /\ query' = 1
    /\ attempt' = 0
    /\ image_counter' = 1
    /\ images_added' = 0
    /\ needed' = 1
    /\ callLog' = NoCalls
    /\ submitted' = NoSubmit

RefillReturn(outcome, ret) ==
    /\ Idle
    /\ refillOutcome' = outcome
    /\ callRet' = ret
    /\ UNCHANGED <<clobbered, lateCalls>>

\* the loops of refill_categories from category position i of round r on, up to the
\* next call of _download_category or to the return
RefillContinue(F, r, i, filled, counts, ret) ==
    LET j == NextShort(F, i) IN
    IF r >= MaxRounds
    THEN RefillReturn("max_rounds", ret) /\ roundCounts' = counts
    ELSE IF j # 0
    THEN RefillEnter(F, r, j) /\ roundCounts' = counts
    ELSE IF filled
    THEN RefillReturn("filled", ret) /\ roundCounts' = Append(counts, Counts(F))
    ELSE IF r + 1 >= MaxRounds
    THEN RefillReturn("max_rounds", ret) /\ roundCounts' = Append(counts, Counts(F))
    ELSE IF NextShort(F, 1) # 0
    THEN RefillEnter(F, r + 1, NextShort(F, 1)) /\ roundCounts' = Append(counts, Counts(F))
    ELSE RefillReturn("filled", ret) /\ roundCounts' = Append(Append(counts, Counts(F)), Counts(F))

RefillStart ==
    /\ dmPc = "idle"
    /\ RefillContinue(files, 0, 1, TRUE, <<>>, NoReturn)
    /\ goodRun' = \A c \in CatSet : JpgCount(files[c]) < ImagesPerCategory
    /\ lastDedup' = NoDedup
    /\ foreign' = {}
    /\ UNCHANGED <<config, files>>

(***************************************************************************)
(* download_images                                                         *)
(***************************************************************************)
DownloadImagesStart ==
    /\ dmPc = "idle"
    /\ EnterDownloadCategory(1, 1, 0)
    /\ caller' = "download_images"
    /\ refillOutcome' = "none"
    /\ callLog' = NoCalls
    /\ roundCounts' = <<>>
    /\ goodRun' = FALSE
    /\ lastDedup' = NoDedup
    /\ foreign' = {}
    /\ UNCHANGED <<config, files, round, categories_filled>>

\* line 147: return image_counter, images_added; and the files named supplied.jpg up to
\* (image_counter - 1).jpg, which are the ones this call saved, that are in the folder f
ReturnOf(supplied, counter, added, f) ==
    [supplied |-> supplied, counter |-> counter, added |-> added,
     kept |-> Cardinality((supplied..(counter - 1)) \cap DOMAIN f), done |-> TRUE]

\* lines 144-147 and the caller's code up to its next call of _download_category
FinishDownloadCategory ==
    /\ dmPc = "acquire"
    /\ query > NumQueries \/ (attempt = 0 /\ QueryBreak(image_counter, images_added, needed))
    /\ LET swept == RemoveCorrupted(files) IN
       \E g \in RemoveDuplicates(swept, config.remove_duplicates) :
          LET ret == ReturnOf(callRet.supplied, image_counter, images_added,
                              FilesOf(g)[Categories[catIdx]]) IN
          /\ files' = FilesOf(g)
          /\ foreign' = foreign \cup ChangedElsewhere(Categories[catIdx], files, FilesOf(g))
          /\ lastDedup' = DedupLog(swept, g)
          /\ IF caller = "download_images"
             THEN /\ IF catIdx < Len(Categories)
                     THEN /\ EnterDownloadCategory(catIdx + 1, 1, 0)
                          /\ caller' = caller
                          /\ UNCHANGED <<round, categories_filled, callLog>>
                     ELSE Idle /\ callRet' = ret /\ UNCHANGED <<clobbered, lateCalls>>
                  /\ UNCHANGED <<roundCounts, refillOutcome>>
             ELSE \* lines 175-176 repeat the two sweeps, which find nothing more to remove
                  RefillContinue(FilesOf(g), round, catIdx + 1, categories_filled, roundCounts, ret)
    /\ UNCHANGED <<config, goodRun>>

(***************************************************************************)
(* The review tool and the standalone sweep                                *)
(***************************************************************************)
ResetLogs ==
    /\ roundCounts' = <<>>
    /\ goodRun' = FALSE
    /\ refillOutcome' = "none"
    /\ clobbered' = {}
    /\ lateCalls' = 0
    /\ foreign' = {}
    /\ callRet' = NoReturn

\* delete_unchecked_images: the user unchecks some images of the dataset
DeleteUnchecked ==
    /\ dmPc = "idle"
    /\ \E c \in CatSet : \E S \in (SUBSET DOMAIN files[c]) \ {{}} :
          files' = [files EXCEPT ![c] = Unlink(files[c], S)]
    /\ ResetLogs
    /\ lastDedup' = NoDedup
    /\ UNCHANGED <<config, dmPc, caller, catIdx, round, categories_filled, query, attempt,
                   image_counter, images_added, needed, callLog, submitted>>

\* DatasetManager(config) is made again with the other setting of remove_duplicates:
\* dataset_path is the same for every Config, so it works on the dataset tree at hand
NewManager ==
    /\ dmPc = "idle"
    /\ config' = [config EXCEPT !.remove_duplicates = ~@]
    /\ ResetLogs
    /\ lastDedup' = NoDedup
    /\ UNCHANGED <<files, dmPc, caller, catIdx, round, categories_filled, query, attempt,
                   image_counter, images_added, needed, callLog, submitted>>

DmInit ==
    /\ config \in Configs
    /\ files = [c \in CatSet |-> EmptyFolder]
    /\ dmPc = "idle"
    /\ caller = "none"
    /\ catIdx = 1
    /\ round = 0
    /\ categories_filled = TRUE
    /\ query = 1
    /\ attempt = 0
    /\ image_counter = 1
    /\ images_added = 0
    /\ needed = 1
    /\ clobbered = {}
    /\ lateCalls = 0
    /\ roundCounts = <<>>
    /\ lastDedup = NoDedup
    /\ foreign = {}
    /\ callRet = NoReturn
    /\ submitted = NoSubmit
    /\ callLog = NoCalls
    /\ goodRun = FALSE
    /\ refillOutcome = "none"

(***************************************************************************)
(* Category                                                                *)
(***************************************************************************)
\* the characters of the strings: a lower-case letter, its upper-case form, a space
Chars == {"d", "D", " "}

Strings == UNION {[1..n -> Chars] : n \in 0..MaxLen}

\* a character left as it is
KeepCase(ch) == ch

\* str.lower on one character
LowerChar(ch) == IF ch = "D" THEN "d" ELSE ch

IsSpace(ch) == ch = " "

RECURSIVE LStrip(_)
LStrip(name) == IF name # <<>> /\ IsSpace(Head(name)) THEN LStrip(Tail(name)) ELSE name

RECURSIVE RStrip(_)
RStrip(name) ==
    IF name # <<>> /\ IsSpace(name[Len(name)]) THEN RStrip(SubSeq(name, 1, Len(name) - 1)) ELSE name

\* Category.__post_init__: self.name.strip().lower()
CategoryName(name) == LET stripped == LStrip(RStrip(name))
                      IN  [i \in 1..Len(stripped) |-> LowerChar(stripped[i])]

NoCategory == [made |-> FALSE, name |-> <<>>]

\* Category(name=...): the dataclass with its __post_init__
Category(name) == [made |-> TRUE, name |-> CategoryName(name)]

\* category_x = Category(name_x); category_y = Category(name_y)
NewCategory ==
    /\ ~cat_x.made
    /\ cat_x' = Category(name_x)
    /\ cat_y' = Category(name_y)
    /\ UNCHANGED <<name_x, name_y, cat_xx>>

\* Category(name=category_x.name)
CategoryOfName ==
    /\ cat_x.made
    /\ ~cat_xx.made
    /\ cat_xx' = Category(cat_x.name)
    /\ UNCHANGED <<name_x, name_y, cat_x, cat_y>>

NoCategories == cat_x = NoCategory /\ cat_y = NoCategory /\ cat_xx = NoCategory

CatIdle == name_x = <<>> /\ name_y = <<>> /\ NoCategories

(***************************************************************************)
(* BingDownloader                                                          *)
(***************************************************************************)
ExecCategories == TwoCategories

\* the names of the files bing_downloader.download leaves in the query folder; it names
\* what it downloads Image_<n>.<type>, and the code keeps file_path.name as it is
FileNames == {[stem |-> "Image_", index |-> k, suffix |-> ".jpg"] : k \in 1..MaxName}

\* what bing_downloader.download can leave in the query folder, in glob order: files
\* with different names, at most limit of them
QueryFolders(limit) ==
    {l \in UNION {[1..n -> [name : FileNames, raw : 0..ExecPics]] : n \in 0..limit} :
        \A i, j \in 1..Len(l) : i # j => l[i].name # l[j].name}

\* bing_downloader.download times out, raises something else, or returns
BingOutcomes(limit) ==
    {[kind |-> "timeout", listing |-> <<>>], [kind |-> "error", listing |-> <<>>],
     [kind |-> "nofolder", listing |-> <<>>]}
        \cup {[kind |-> "ok", listing |-> l] : l \in QueryFolders(limit)}

\* the bytes of a downloaded file
RawBytes(raw) == IF raw = Corrupt THEN CorruptBytes ELSE [pic |-> raw, form |-> "raw"]

\* lines 116-119: shutil.move of every file of the query folder into the output directory
RECURSIVE MoveFiles(_, _)
MoveFiles(folder, listing) ==
    IF listing = <<>> THEN folder
    ELSE MoveFiles(WriteFile(folder, Head(listing).name, RawBytes(Head(listing).raw)), Tail(listing))

ListingNames(listing) == [i \in 1..Len(listing) |-> listing[i].name]

RECURSIVE Pow2(_)
Pow2(n) == IF n = 0 THEN 1 ELSE 2 * Pow2(n - 1)

\* the wait growing by one sleep_time per retry
LinearWait(r) == SleepTime * r

\* line 128: wait_time = self.sleep_time * (2 ** retry)
BackoffWait(r) == SleepTime * Pow2(r)

\* the generic handler going round the loop like the timeout handler
RetryAfterLikeTimeout(kind, r) == r + 1

\* lines 126-138: the retry the loop goes on with after an exception; max_retries ends it
RetryAfter(kind, r) == IF kind = "timeout" THEN r + 1 ELSE MaxRetries

\* an except clause that does not match DownloadError
CatchesNothing(exc) == FALSE

\* line 71: except DownloadError
Catches(exc) == exc = "DownloadError"

NoDwr == [attempt |-> 0, kinds |-> <<>>, waits |-> <<>>, end |-> "none"]

EmptySummary == [total_downloaded |-> 0, total_valid |-> 0, duplicates_removed |-> 0,
                 corrupted_removed |-> 0, categories |-> <<>>]

\* category_path.mkdir(parents=True, exist_ok=True)
Mkdir(t, folder) == IF folder \in DOMAIN t THEN t ELSE [d \in DOMAIN t \cup {folder} |-> IF d = folder THEN EmptyFolder ELSE t[d]]

\* _randomize_query: the query strings differ by the modifier random.choice picks
Modifiers == 1..NumModifiers

NoTempDir == [exists |-> FALSE, folders |-> {}]

\* temp_dir.mkdir(parents=True, exist_ok=True)
MkTempDir(td, folder) ==
    [d \in DOMAIN td \cup {folder} |->
        IF d = folder
        THEN [exists |-> TRUE, folders |-> IF d \in DOMAIN td THEN td[d].folders ELSE {}]
        ELSE td[d]]

\* lines 76-77: temp_dir is removed when it is empty
RmdirIfEmpty(dir) == IF dir.exists /\ dir.folders = {} THEN NoTempDir ELSE dir

\* lines 61-70 of execute and 54-64 of search_and_download: the category folder and its
\* temp_download are made and the first query is drawn
EnterSearch(t, i) ==
    /\ ucPc' = "call"
    /\ ucCat' = i
    /\ ucAttempt' = 0
    /\ retry' = 0
    /\ downloaded_paths' = <<>>
    /\ tree' = Mkdir(t, ExecCategories[i])
    /\ temp_download' = MkTempDir(temp_download, ExecCategories[i])
    /\ query_to_use' \in Modifiers

Execute ==
    /\ ucPc = "idle"
    /\ EnterSearch(tree, 1)
    /\ dwr' = NoDwr
    /\ everReturned' = FALSE
    /\ summary' = EmptySummary

\* the end of one _download_with_retry inside search_and_download: the next attempt, or
\* the return of search_and_download, or the exception going up
AfterAttempt(exc, dir) ==
    LET folder == ExecCategories[ucCat] IN
    IF exc # "none" /\ ~Catches(exc)
    THEN /\ ucPc' = "raised"
         /\ temp_download' = [temp_download EXCEPT ![folder] = dir]
         /\ UNCHANGED <<ucAttempt, retry, query_to_use>>
    ELSE IF ucAttempt + 1 < NumQueryAttempts
    THEN /\ ucPc' = "call"
         /\ ucAttempt' = ucAttempt + 1
         /\ retry' = 0
         /\ temp_download' = [temp_download EXCEPT ![folder] = dir]
         /\ query_to_use' \in Modifiers
    ELSE /\ ucPc' = "process"
         /\ temp_download' = [temp_download EXCEPT ![folder] = RmdirIfEmpty(dir)]
         /\ query_to_use' = 1
         /\ UNCHANGED <<ucAttempt, retry>>

\* bing_downloader.download makes the query folder before it goes to the network: a call
\* that raises has left the folder behind, or has raised before making it
AfterRaise(dir, q) == {dir, [dir EXCEPT !.folders = @ \cup {q}]}

\* line 122: shutil.rmtree(query_folder, ignore_errors=True)
Rmtree(dir, q) == [dir EXCEPT !.folders = @ \ {q}]

\* lines 91-140: one pass of the retry loop, around one call of bing_downloader.download
BingDownload ==
    /\ ucPc = "call"
    /\ \E o \in BingOutcomes(ExecPage) :
          LET folder == ExecCategories[ucCat]
              dir == temp_download[folder]
              log == IF retry = 0 THEN [NoDwr EXCEPT !.attempt = ucAttempt] ELSE dwr
              logged == [log EXCEPT !.kinds = Append(@, o.kind)]
          IN  IF o.kind \in {"ok", "nofolder"}
              THEN \* a query folder left by an earlier call is found by line 108
                   /\ o.kind = "nofolder" => query_to_use \notin dir.folders
                   /\ tree' = [tree EXCEPT ![folder] = MoveFiles(@, o.listing)]
                   /\ downloaded_paths' = downloaded_paths \o ListingNames(o.listing)
                   /\ dwr' = [logged EXCEPT !.end = "returned"]
                   /\ everReturned' = TRUE
                   /\ AfterAttempt("none", Rmtree(dir, query_to_use))
              ELSE LET waited == IF o.kind = "timeout"
                                 THEN [logged EXCEPT !.waits = Append(@, BackoffWait(retry))]
                                 ELSE logged
                   IN  /\ UNCHANGED <<tree, downloaded_paths, everReturned>>
                       /\ \E left \in AfterRaise(dir, query_to_use) :
                             IF RetryAfter(o.kind, retry) < MaxRetries
                             THEN /\ retry' = RetryAfter(o.kind, retry)
                                  /\ dwr' = waited
                                  /\ temp_download' = [temp_download EXCEPT ![folder] = left]
                                  /\ UNCHANGED <<ucPc, ucAttempt, query_to_use>>
                             ELSE /\ dwr' = [waited EXCEPT !.end = "DownloadError"]
                                  /\ AfterAttempt("DownloadError", left)
    /\ UNCHANGED <<ucCat, summary>>

(***************************************************************************)
(* ImageProcessorPillow, DatasetRepositoryFS and PrepareDatasetUseCase     *)
(***************************************************************************)
\* validate_and_convert: False for a file that does not decode, otherwise the file is
\* saved again as an RGB JPEG
ValidateAndConvert(bytes) ==
    IF bytes.form = "corrupt" THEN [ok |-> FALSE, bytes |-> bytes]
    ELSE [ok |-> TRUE, bytes |-> [pic |-> bytes.pic, form |-> IF bytes.form = "raw" THEN "rgb" ELSE bytes.form]]

\* normalize: a file that is not in RGB mode is converted and saved again
NormalizeRgb(bytes) == IF bytes.form = "raw" THEN [pic |-> bytes.pic, form |-> "rgb"] ELSE bytes

\* resize(item, (192, 192)): the file is replaced by the resized JPEG
Resize192(bytes) == [pic |-> bytes.pic, form |-> "rgb192"]

\* DatasetRepositoryFS.save: the file is copied when it is not yet in the folder of the
\* normalised category name
RepoSave(t, fromFolder, name, category) ==
    LET made == Mkdir(t, category)
    IN  IF fromFolder = category THEN made
        ELSE [made EXCEPT ![category] = WriteFile(@, name, made[fromFolder][name])]

\* lines 85-96 of execute: the loop over downloaded_paths
RECURSIVE ProcessPaths(_, _, _, _, _)
ProcessPaths(t, paths, cat_name, valid_count, corrupted) ==
    IF paths = <<>>
    THEN [tree |-> t, valid_count |-> valid_count, corrupted |-> corrupted]
    ELSE LET path == Head(paths)
             v == ValidateAndConvert(t[cat_name][path])
         IN  IF v.ok
             THEN ProcessPaths(
                      RepoSave([t EXCEPT ![cat_name] = WriteFile(@, path, Resize192(NormalizeRgb(v.bytes)))],
                               cat_name, path, CategoryName(cat_name)),
                      Tail(paths), cat_name, valid_count + 1, corrupted)
             ELSE ProcessPaths(t, Tail(paths), cat_name, valid_count, corrupted + 1)

\* lines 76-100 of execute for the category whose search has returned, and the start of
\* the next category
ProcessDownloads ==
    /\ ucPc = "process"
    /\ LET cat_name == ExecCategories[ucCat]
           r == ProcessPaths(tree, downloaded_paths, cat_name, 0, 0)
           t == IF downloaded_paths = <<>> THEN tree ELSE r.tree
       IN  /\ summary' =
                 IF downloaded_paths = <<>> THEN summary
                 ELSE [summary EXCEPT
                          !.total_downloaded = @ + Len(downloaded_paths),
                          !.total_valid = @ + r.valid_count,
                          !.corrupted_removed = @ + r.corrupted,
                          !.categories = [c \in DOMAIN @ \cup {cat_name} |->
                                             IF c = cat_name THEN r.valid_count ELSE @[c]]]
           /\ IF ucCat < Len(ExecCategories)
              THEN EnterSearch(t, ucCat + 1)
              ELSE /\ ucPc' = "done"
                   /\ tree' = t
                   /\ downloaded_paths' = <<>>
                   /\ UNCHANGED <<ucCat, ucAttempt, retry, query_to_use, temp_download>>
    /\ UNCHANGED <<dwr, everReturned>>

\* load_all: the files of every category folder of the repository
FilesIn(t) == UNION {{[folder |-> d, name |-> n] : n \in DOMAIN t[d]} : d \in DOMAIN t}

\* lines 55-60 of ValidateDatasetUseCase.execute on every stored file: a file that
\* validates is saved again as a JPEG, a file that does not is counted
ValidatedTree(t) ==
    [d \in DOMAIN t |-> [n \in DOMAIN t[d] |->
        IF ValidateAndConvert(t[d][n]).ok THEN ValidateAndConvert(t[d][n]).bytes ELSE t[d][n]]]

NoValidation == [done |-> FALSE, total_images |-> 0, valid_images |-> 0, invalid_images |-> 0,
                 removed |-> 0]

\* ValidateDatasetUseCase.execute on the dataset that PrepareDatasetUseCase.execute left
ValidateExecute ==
    /\ ucPc = "done"
    /\ ~validation.done
    /\ LET images == FilesIn(tree)
           invalid == {p \in images : ~ValidateAndConvert(tree[p.folder][p.name]).ok}
           after == ValidatedTree(tree)
       IN  /\ tree' = after
           /\ validation' = [done |-> TRUE,
                             total_images |-> Cardinality(images),
                             valid_images |-> Cardinality(images \ invalid),
                             invalid_images |-> Cardinality(invalid),
                             removed |-> Cardinality(images \ FilesIn(after))]
    /\ UNCHANGED <<ucPc, ucCat, ucAttempt, retry, downloaded_paths, query_to_use, temp_download,
                   dwr, everReturned, summary>>

UcIdle ==
    /\ ucPc = "idle"
    /\ ucCat = 1
    /\ ucAttempt = 0
    /\ retry = 0
    /\ downloaded_paths = <<>>
    /\ tree = <<>>
    /\ query_to_use = 1
    /\ temp_download = <<>>
    /\ dwr = NoDwr
    /\ everReturned = FALSE
    /\ summary = EmptySummary
    /\ validation = NoValidation

(***************************************************************************)
(* AppConfig and the prepare command                                       *)
(***************************************************************************)
\* the values given to the counts of the configuration
CountValues == (0 - 1)..MaxCount

\* valid_pct in tenths: 0.0, 0.2, 1.0
PctValues == {0, 2, 10}

\* the arguments of AppConfig(...) that __post_init__ or the core reads
AppConfigArgs ==
    [categories : {<<>>, OneCategory}, images_per_category : CountValues,
     images_per_search : CountValues, max_retries : CountValues,
     max_refill_rounds : CountValues, batch_size : CountValues, epochs : CountValues,
     valid_pct : PctValues]

\* lines 88, 94, 97: if self.<count> <= 0
NotPositive(n) == n <= 0

\* lines 85-98: the tests of __post_init__ that raise ValueError
PostInitRaises(c) ==
    \/ c.categories = <<>>
    \/ NotPositive(c.images_per_category)
    \/ ~(0 < c.valid_pct /\ c.valid_pct < 10)
    \/ NotPositive(c.batch_size)
    \/ NotPositive(c.epochs)

\* prepare.py lines 21-24: config = AppConfig.from_yaml(args.config) or AppConfig()
AppConfigMake ==
    /\ app.pc = "args"
    /\ app' = [app EXCEPT !.pc = IF PostInitRaises(app.given) THEN "ValueError" ELSE "made"]

\* prepare.py lines 27-30: --categories and --images replace the fields of the config;
\* --categories takes one name at least, --images 0 counts as not given
CliOverride ==
    /\ app.pc = "made"
    /\ \E cats \in {<<>>, OneCategory} : \E images \in CountValues :
          app' = [app EXCEPT
                     !.pc = "overridden",
                     !.config.categories = IF cats # <<>> THEN cats ELSE @,
                     !.config.images_per_category = IF images # 0 THEN images ELSE @]

\* prepare.py lines 33-38: the container is made and execute is called
CliExecute ==
    /\ app.pc \in {"made", "overridden"}
    /\ app' = [app EXCEPT !.pc = "core"]

AppIdle == app = [pc |-> "none", given |-> <<>>, config |-> <<>>]

(***************************************************************************)
(* TrainingMetrics                                                         *)
(***************************************************************************)
MetricNames == {"accuracy", "error_rate"}

\* metric values in tenths: 0.0, 0.5, 1.0, 1.5
MetricValues == {0, 5, 10, 15}

\* the dict objects: the one passed to the constructor, the one as_dict returns
PassedDict == "passed"

ReturnedDict == "returned"

\* the generated __init__: self.metrics is the dict object that was passed in
Holds(passed) == passed

\* line 21: if not 0.0 <= value <= 1.0
OutOfRange(value) == ~(0 <= value /\ value <= 10)

\* TrainingMetrics(metrics=d)
MetricsMake ==
    /\ tm.pc = "args"
    /\ LET d == tm.heap[PassedDict] IN
       IF \E name \in DOMAIN d : OutOfRange(d[name])
       THEN tm' = [tm EXCEPT !.pc = "ValueError"]
       ELSE tm' = [tm EXCEPT !.pc = "made", !.ref = Holds(PassedDict), !.made_with = d,
                             !.heap = [o \in DOMAIN tm.heap \cup {Holds(PassedDict)} |->
                                          IF o \in DOMAIN tm.heap THEN tm.heap[o] ELSE d]]

\* get(metric_name): return self.metrics[metric_name]
MetricsGet ==
    /\ tm.pc = "made"
    /\ \E name \in MetricNames : tm' = [tm EXCEPT !.got = tm.heap[tm.ref][name]]

\* as_dict(): return dict(self.metrics)
MetricsAsDict ==
    /\ tm.pc = "made"
    /\ ReturnedDict \notin DOMAIN tm.heap
    /\ tm' = [tm EXCEPT !.heap = [o \in DOMAIN tm.heap \cup {ReturnedDict} |->
                                     IF o = ReturnedDict THEN tm.heap[tm.ref] ELSE tm.heap[o]]]

\* the caller assigns d[name] = value in a dict it holds: the one it passed in, or the
\* one as_dict returned
CallerAssigns ==
    /\ tm.pc = "made"
    /\ \E o \in DOMAIN tm.heap \cap {PassedDict, ReturnedDict} :
       \E name \in MetricNames : \E value \in MetricValues :
          tm' = [tm EXCEPT !.heap[o][name] = value]

TmIdle == tm = [pc |-> "none", heap |-> <<>>, ref |-> "none", made_with |-> <<>>, got |-> 0]

(***************************************************************************)
(* ImageProcessorPillow.batch_process                                      *)
(***************************************************************************)
\* the files the items point at: an RGB image, an image of another mode, a file that
\* Image.open rejects, an RGB image whose data is cut short (it opens, it does not load)
FileKinds == {"rgb", "grey", "undecodable", "truncated"}

\* normalize: Image.open raises; the data is loaded only when the mode is converted
NormalizeRaises(kind) == IF kind = "undecodable" THEN "UnidentifiedImageError" ELSE "none"

\* resize: Image.open raises, or img.resize raises when it loads the data
ResizeRaises(kind) ==
    IF kind = "undecodable" THEN "UnidentifiedImageError"
    ELSE IF kind = "truncated" THEN "OSError" ELSE "none"

\* an except clause for the errors of Image.open only
ExceptOpenErrors(exc) == exc = "UnidentifiedImageError"

\* line 91: except Exception
ExceptException(exc) == exc \in {"UnidentifiedImageError", "OSError"}

\* lines 83-87 for one item: the exception that leaves the try body, "none" when none does
ProcessRaises(image, size) ==
    IF NormalizeRaises(image.file) # "none" THEN NormalizeRaises(image.file)
    ELSE IF size THEN ResizeRaises(image.file) ELSE "none"

\* lines 80-93: the loop over the images
RECURSIVE BatchLoop(_, _, _)
BatchLoop(images, size, processed) ==
    IF images = <<>> THEN [processed |-> processed, raised |-> "none"]
    ELSE LET exc == ProcessRaises(Head(images), size) IN
         IF exc = "none" THEN BatchLoop(Tail(images), size, Append(processed, Head(images).path))
         ELSE IF ExceptException(exc) THEN BatchLoop(Tail(images), size, processed)
         ELSE [processed |-> processed, raised |-> exc]

\* batch_process(images, size)
BatchProcess ==
    /\ batch.pc = "args"
    /\ LET r == BatchLoop(batch.images, batch.size, <<>>) IN
       batch' = [batch EXCEPT !.pc = IF r.raised = "none" THEN "returned" ELSE "raised",
                              !.processed = r.processed]

\* the items are at different paths, numbered in input order
BatchInputs ==
    UNION {{[i \in 1..n |-> [path |-> i, file |-> kinds[i]]] : kinds \in [1..n -> FileKinds]} :
             n \in 0..MaxBatch}

BatchIdle == batch = [pc |-> "none", images |-> <<>>, size |-> FALSE, processed |-> <<>>]

(***************************************************************************)
(* FastAIDataLoader.create_dataloader                                      *)
(***************************************************************************)
\* the names a file of the dataset path can have, and a folder
DlFiles == {"a.jpg", "notes.txt"}
DlFolders == {"cat", ".cache"}

\* the suffix is one of the image extensions of get_image_files
ImageExtension(f) == f = "a.jpg"

\* get_image_files walks the path and leaves out the folders whose name starts with "."
Hidden(d) == d = ".cache"

\* line 29: get_image_files(self.dataset_path)
GetImageFiles(ds) ==
    {[folder |-> "", name |-> f] : f \in {g \in ds.root : ImageExtension(g)}}
    \cup UNION {{[folder |-> d, name |-> f] : f \in {g \in ds.sub[d] : ImageExtension(g)}} :
                   d \in {e \in DOMAIN ds.sub : ~Hidden(e)}}

\* a check of the subfolders that never fails
SubfoldersNotChecked(ds) == FALSE

\* lines 38-39: len(categories) == 0
NoSubfolders(ds) == DOMAIN ds.sub = {}

\* lines 25-52: how the call ends, and whether the DataBlock was built
DataloaderOutcome(ds) ==
    IF ~ds.exists THEN [raised |-> "FileNotFoundError", built |-> FALSE]
    ELSE IF GetImageFiles(ds) = {} THEN [raised |-> "ValueError", built |-> FALSE]
    ELSE IF NoSubfolders(ds) THEN [raised |-> "ValueError", built |-> FALSE]
    ELSE [raised |-> "none", built |-> TRUE]

\* create_dataloader()
CreateDataloader ==
    /\ dl.pc = "args"
    /\ LET r == DataloaderOutcome(dl.path) IN
       dl' = [dl EXCEPT !.pc = IF r.raised = "none" THEN "returned" ELSE "raised",
                        !.raised = r.raised, !.built = r.built]

\* the dataset paths: one that does not exist, and the ones that do with their files
\* and subfolders
DlInputs ==
    {[exists |-> FALSE, root |-> {}, sub |-> <<>>]}
    \cup {[exists |-> TRUE, root |-> r, sub |-> t] :
              r \in SUBSET DlFiles,
              t \in UNION {[S -> SUBSET DlFiles] : S \in SUBSET DlFolders}}

DlIdle == dl = [pc |-> "idle", path |-> [exists |-> FALSE, root |-> {}, sub |-> <<>>],
                raised |-> "none", built |-> FALSE]

(***************************************************************************)
(* DatasetRepositoryFS                                                     *)
(***************************************************************************)
\* the names given to Category
RepoCategoryNames ==
    {<<"d", "o", "g">>, <<"D", "o", "g">>, <<"t", "e", "a">>, <<"t", "e", "m", "p", "l", "e">>,
     <<".", "d">>, <<" ">>}

\* the suffixes of the saved file
RepoSuffixes == {".jpg", ".JPG", ".gif"}

\* img_path.suffix.lower()
LowerSuffix(suffix) == IF suffix = ".JPG" THEN ".jpg" ELSE suffix

\* line 18
SUPPORTED_EXTENSIONS == {".jpg", ".jpeg", ".png", ".webp"}

Supported(f) == LowerSuffix(f.suffix) \in SUPPORTED_EXTENSIONS

\* str.startswith
StartsWith(name, prefix) ==
    Len(name) >= Len(prefix) /\ SubSeq(name, 1, Len(prefix)) = prefix

\* name.startswith(('temp', '.'))
TempOrHidden(name) == StartsWith(name, <<"t", "e", "m", "p">>) \/ StartsWith(name, <<".">>)

\* the base_path: the files at its top level and its folders with their files
EmptyBase == [root |-> {}, sub |-> <<>>]

\* the files of base_path / name; base_path / "" is the base_path itself
FolderFiles(base, name) == IF name = <<>> THEN base.root ELSE base.sub[name]

FolderExists(base, name) == name = <<>> \/ name \in DOMAIN base.sub

\* category_path.mkdir(exist_ok=True)
RepoMkdir(base, name) ==
    IF FolderExists(base, name) THEN base
    ELSE [base EXCEPT !.sub = [d \in DOMAIN base.sub \cup {name} |->
                                   IF d = name THEN {} ELSE base.sub[d]]]

\* shutil.copy2 to category_path / image.file_path.name
CopyInto(base, name, f) ==
    IF name = <<>> THEN [base EXCEPT !.root = @ \cup {f}]
    ELSE [base EXCEPT !.sub[name] = @ \cup {f}]

\* save(image, category): lines 27-37
SaveOutcome(base, image, category) ==
    LET made == RepoMkdir(base, category.name) IN
    IF ~image.exists THEN [raised |-> "FileNotFoundError", base |-> made]
    ELSE IF image.at = "outside"
         THEN [raised |-> "none", base |-> CopyInto(made, category.name, image.name)]
         ELSE [raised |-> "none", base |-> made]

\* list_categories(): the names of the list, its order left out
ListCategoriesOf(base) == {d \in DOMAIN base.sub : ~TempOrHidden(d)}

\* load_all(): one ImageItem per file, named by its folder, its name and its category
LoadAllOf(base) ==
    UNION {{[folder |-> d, name |-> f, category |-> Category(d).name] :
                f \in {g \in base.sub[d] : Supported(g)}} :
           d \in {e \in DOMAIN base.sub : ~TempOrHidden(e)}}

\* load_by_category(category)
LoadByCategoryOf(base, category) ==
    IF ~FolderExists(base, category.name) THEN {}
    ELSE {[folder |-> category.name, name |-> f, category |-> category.name] :
              f \in {g \in FolderFiles(base, category.name) : Supported(g)}}

\* save(image, category)
Save ==
    /\ repo.pc = "args"
    /\ LET r == SaveOutcome(repo.base, repo.image, Category(repo.category)) IN
       repo' = [repo EXCEPT !.pc = IF r.raised = "none" THEN "saved" ELSE "raised",
                            !.base = r.base]

RepoListCategories ==
    /\ repo.pc = "saved"
    /\ "list_categories" \notin repo.called
    /\ repo' = [repo EXCEPT !.called = @ \cup {"list_categories"},
                            !.listed = ListCategoriesOf(repo.base)]

RepoLoadAll ==
    /\ repo.pc = "saved"
    /\ "load_all" \notin repo.called
    /\ repo' = [repo EXCEPT !.called = @ \cup {"load_all"},
                            !.all = LoadAllOf(repo.base)]

RepoLoadByCategory ==
    /\ repo.pc = "saved"
    /\ "load_by_category" \notin repo.called
    /\ repo' = [repo EXCEPT !.called = @ \cup {"load_by_category"},
                            !.byCategory = LoadByCategoryOf(repo.base, Category(repo.category))]

\* the file given to save: one outside the base_path, one that does not exist, one that
\* is already in the folder of the category
RepoImages ==
    {[name |-> [stem |-> "Image_1", suffix |-> x], at |-> a.at, exists |-> a.exists] :
         x \in RepoSuffixes,
         a \in {[at |-> "outside", exists |-> TRUE], [at |-> "outside", exists |-> FALSE],
                [at |-> "target", exists |-> TRUE]}}

\* the base_path before the save: empty, or with a category folder of an earlier save
RepoBases ==
    {EmptyBase,
     CopyInto(RepoMkdir(EmptyBase, <<"d", "o", "g">>), <<"d", "o", "g">>,
              [stem |-> "Image_2", suffix |-> ".jpg"])}

\* a file that is already at its target is in the base_path
RepoBaseWith(base, image, name) ==
    IF image.at = "target"
    THEN CopyInto(RepoMkdir(base, Category(name).name), Category(name).name, image.name)
    ELSE base

NoRepoImage == [name |-> [stem |-> "", suffix |-> ""], at |-> "outside", exists |-> FALSE]

RepoIdle == repo = [pc |-> "idle", category |-> <<>>, image |-> NoRepoImage, base |-> EmptyBase,
                    called |-> {}, listed |-> {}, all |-> {}, byCategory |-> {}]

(***************************************************************************)
(* The specifications                                                      *)
(***************************************************************************)
AuxIdle == AppIdle /\ TmIdle /\ BatchIdle /\ DlIdle /\ RepoIdle

Init == DmInit /\ UcIdle /\ CatIdle /\ AuxIdle

Next ==
    \/ DownloadImagesStart /\ UNCHANGED <<ucVars, catVars, auxVars>>
    \/ SearchCall /\ UNCHANGED <<ucVars, catVars, auxVars>>
    \/ FinishDownloadCategory /\ UNCHANGED <<ucVars, catVars, auxVars>>
    \/ RefillStart /\ UNCHANGED <<ucVars, catVars, auxVars>>
    \/ DeleteUnchecked /\ UNCHANGED <<ucVars, catVars, auxVars>>
    \/ NewManager /\ UNCHANGED <<ucVars, catVars, auxVars>>

\* the DatasetManager
Spec == Init /\ [][Next]_vars

UseCaseInit ==
    /\ DmInit
    /\ config.categories = ExecCategories
    /\ config.remove_duplicates
    /\ UcIdle
    /\ CatIdle
    /\ AuxIdle

UseCaseNext ==
    \/ Execute /\ UNCHANGED <<dmVars, catVars, auxVars, validation>>
    \/ BingDownload /\ UNCHANGED <<dmVars, catVars, auxVars, validation>>
    \/ ProcessDownloads /\ UNCHANGED <<dmVars, catVars, auxVars, validation>>
    \/ ValidateExecute /\ UNCHANGED <<dmVars, catVars, auxVars>>

\* the DatasetManager when every call of the search service returns or raises and the
\* code after it runs on
FairSpec ==
    /\ Spec
    /\ WF_vars(SearchCall /\ UNCHANGED <<ucVars, catVars, auxVars>>)
    /\ WF_vars(FinishDownloadCategory /\ UNCHANGED <<ucVars, catVars, auxVars>>)

\* PrepareDatasetUseCase.execute over the BingDownloader
UseCaseSpec == UseCaseInit /\ [][UseCaseNext]_vars

CategoryInit ==
    /\ DmInit
    /\ config.categories = OneCategory
    /\ config.remove_duplicates
    /\ UcIdle
    /\ name_x \in Strings
    /\ name_y \in Strings
    /\ NoCategories
    /\ AuxIdle

CategoryNext ==
    \/ NewCategory /\ UNCHANGED <<dmVars, ucVars, auxVars>>
    \/ CategoryOfName /\ UNCHANGED <<dmVars, ucVars, auxVars>>

\* the Category entity made of every pair of strings
CategorySpec == CategoryInit /\ [][CategoryNext]_vars

\* the other parts at rest
QuietInit ==
    /\ DmInit
    /\ config.categories = OneCategory
    /\ config.remove_duplicates
    /\ UcIdle
    /\ CatIdle

ConfigInit ==
    /\ QuietInit
    /\ TmIdle
    /\ BatchIdle
    /\ DlIdle
    /\ RepoIdle
    /\ \E given \in AppConfigArgs : app = [pc |-> "args", given |-> given, config |-> given]

ConfigNext ==
    \/ AppConfigMake /\ UNCHANGED restOfApp
    \/ CliOverride /\ UNCHANGED restOfApp
    \/ CliExecute /\ UNCHANGED restOfApp

\* the prepare command: the AppConfig is made, overridden from the command line, used
ConfigSpec == ConfigInit /\ [][ConfigNext]_vars

MetricsInit ==
    /\ QuietInit
    /\ AppIdle
    /\ BatchIdle
    /\ DlIdle
    /\ RepoIdle
    /\ \E d \in [MetricNames -> MetricValues] :
          tm = [pc |-> "args", heap |-> [o \in {PassedDict} |-> d], ref |-> "none",
                made_with |-> <<>>, got |-> 0]

MetricsNext ==
    \/ MetricsMake /\ UNCHANGED restOfTm
    \/ MetricsGet /\ UNCHANGED restOfTm
    \/ MetricsAsDict /\ UNCHANGED restOfTm
    \/ CallerAssigns /\ UNCHANGED restOfTm

\* a TrainingMetrics made of a dict and used by its caller
MetricsSpec == MetricsInit /\ [][MetricsNext]_vars

BatchInit ==
    /\ QuietInit
    /\ AppIdle
    /\ TmIdle
    /\ DlIdle
    /\ RepoIdle
    /\ \E images \in BatchInputs : \E size \in BOOLEAN :
          batch = [pc |-> "args", images |-> images, size |-> size, processed |-> <<>>]

BatchNext == BatchProcess /\ UNCHANGED restOfBatch

\* batch_process called with every list of items, with and without a size
BatchSpec == BatchInit /\ [][BatchNext]_vars

DataLoaderInit ==
    /\ QuietInit
    /\ AppIdle
    /\ TmIdle
    /\ BatchIdle
    /\ RepoIdle
    /\ \E ds \in DlInputs : dl = [pc |-> "args", path |-> ds, raised |-> "none", built |-> FALSE]

DataLoaderNext == CreateDataloader /\ UNCHANGED restOfDl

DataLoaderSpec == DataLoaderInit /\ [][DataLoaderNext]_vars

RepoInit ==
    /\ QuietInit
    /\ AppIdle
    /\ TmIdle
    /\ BatchIdle
    /\ DlIdle
    /\ \E name \in RepoCategoryNames, image \in RepoImages, base \in RepoBases :
          repo = [pc |-> "args", category |-> name, image |-> image,
                  base |-> RepoBaseWith(base, image, name),
                  called |-> {}, listed |-> {}, all |-> {}, byCategory |-> {}]

RepoNext ==
    \/ Save /\ UNCHANGED restOfRepo
    \/ RepoListCategories /\ UNCHANGED restOfRepo
    \/ RepoLoadAll /\ UNCHANGED restOfRepo
    \/ RepoLoadByCategory /\ UNCHANGED restOfRepo

RepoSpec == RepoInit /\ [][RepoNext]_vars

(***************************************************************************)
(* Properties of the DatasetManager                                        *)
(***************************************************************************)
RefillReturned == dmPc = "idle" /\ refillOutcome # "none"

\* C1: a refill that starts with every category below its target, and whose every search
\* call delivers a full page of new valid pictures, ends with every category at its target
RefillConverges ==
    (RefillReturned /\ goodRun) => \A c \in CatSet : JpgCount(files[c]) = ImagesPerCategory

\* C2: _download_category never saves to a file name that already exists in the folder
NeverSavesOverExistingFile == clobbered = {}

\* C3: the counts measured at the end of the rounds of one refill never decrease
CountsNeverDecrease ==
    \A i \in 1..(Len(roundCounts) - 1) :
        \A c \in CatSet : roundCounts[i + 1][c] >= roundCounts[i][c]

\* C4: no category ever holds more than images_per_category .jpg files
QuotaCeiling == \A c \in CatSet : JpgCount(files[c]) <= ImagesPerCategory

\* a refill that had work to do has filled every category, and a search call was made
\* for a category that was already full
QuotaCeilingReached ==
    /\ RefillReturned
    /\ refillOutcome = "filled"
    /\ Len(roundCounts) >= 2
    /\ lateCalls > 0
    /\ \A c \in CatSet : JpgCount(files[c]) = ImagesPerCategory

\* C6: within one call of _download_category no search call is made once images_added
\* has reached the needed count or the counter has passed images_per_category
NoSearchCallOnceEnough == lateCalls = 0

HashesUnique(f) == \A n, m \in DOMAIN f : n # m => Md5(f[n]) # Md5(f[m])

\* C10: right after a remove_duplicates pass with the toggle on, every hash occurs at most
\* once in each category, and the number of files the pass deleted there is the file
\* count before the pass minus the number of distinct hashes before the pass
DedupIsSetReduction ==
    (lastDedup.ran /\ config.remove_duplicates) =>
        \A c \in CatSet :
            /\ HashesUnique(files[c])
            /\ lastDedup.removed[c] = lastDedup.before[c] - lastDedup.distinct[c]

\* a pass with the toggle on that found duplicates in a folder of at least three files
DedupRemovedSome ==
    /\ lastDedup.ran
    /\ config.remove_duplicates
    /\ \E c \in CatSet : lastDedup.removed[c] > 0 /\ lastDedup.distinct[c] > 1

\* C11: a remove_duplicates pass with the toggle on leaves in each category exactly the
\* files its scan met first among the files with the same bytes, with their bytes
\* untouched, and unlinks every later one
DedupKeepsFirstSeen ==
    (lastDedup.ran /\ config.remove_duplicates) =>
        \A c \in CatSet :
            /\ DOMAIN files[c] = lastDedup.first[c]
            /\ lastDedup.removed[c] = lastDedup.before[c] - Cardinality(lastDedup.first[c])

\* a pass over a folder of two identical files, 1.jpg and 2.jpg, whose scan met 2.jpg
\* first: 1.jpg is the one removed
DedupKeptTheLaterName ==
    /\ lastDedup.ran
    /\ config.remove_duplicates
    /\ \E c \in CatSet :
          /\ lastDedup.before[c] = 2
          /\ lastDedup.removed[c] = 1
          /\ lastDedup.first[c] = {2}
          /\ DOMAIN files[c] = {2}

AllAtTarget == \A c \in CatSet : JpgCount(files[c]) >= ImagesPerCategory

\* C14: a refill that stops with every category at its target ends with "All categories
\* filled", and one that ends with "Stopped after max rounds" has a category below target
RefillOutcomeMatchesCounts ==
    RefillReturned =>
        /\ AllAtTarget => refillOutcome = "filled"
        /\ refillOutcome = "max_rounds" => ~AllAtTarget

InRefill == caller = "refill_categories"

\* while refill_categories runs it is in one of its max_rounds rounds; the categories it
\* has called _download_category for in this round are in the order of the category
\* list, none of them twice; the running call is for a category that was short and was
\* given needed = images_per_category - count_existing
RefillCallsOnlyTheShort ==
    InRefill =>
        /\ round < MaxRounds
        /\ \A i, j \in 1..Len(callLog.cats) : i < j => callLog.cats[i] < callLog.cats[j]
        /\ callLog.cats # <<>> /\ callLog.cats[Len(callLog.cats)] = catIdx
        /\ callLog.needed > 0
        /\ callLog.needed = ImagesPerCategory - callLog.count
        /\ needed = callLog.needed

\* C15: refill_categories returns after at most max_rounds rounds, and in each round it
\* calls _download_category at most once per category, only for a category with
\* needed > 0 and with exactly that needed
RefillBoundedAndExact == [](RefillCallsOnlyTheShort) /\ (InRefill ~> ~InRefill)

\* the last round of a refill has called _download_category for the second category only:
\* the first one had needed <= 0 and was skipped
RefillSkippedTheFull ==
    /\ InRefill
    /\ round = MaxRounds - 1
    /\ callLog.cats = <<2>>
    /\ JpgCount(files[Categories[1]]) >= ImagesPerCategory

\* C16: the work done for one category (its search calls and the two sweeps that end
\* its _download_category) changes no file of another category's folder
CategoriesIndependent == foreign = {}

\* C17: the images_added that _download_category returns is the number of files it
\* saved that are in the category folder after its two sweeps, and the image_counter it
\* returns is the one it was given plus images_added
ReturnsWhatItAdded ==
    callRet.done =>
        /\ callRet.added = callRet.kept
        /\ callRet.counter = callRet.supplied + callRet.added

\* C25: the string of every search call of _download_category is the base query its
\* loop is at, with at most one modifier appended
SubmitsTheBaseQuery ==
    submitted.made => submitted.base = submitted.query /\ submitted.modifiers <= 1

(***************************************************************************)
(* Properties of PrepareDatasetUseCase.execute and the BingDownloader      *)
(***************************************************************************)
\* the processed images in the folder execute made for the category
SavedImages(cat_name) == {n \in DOMAIN tree[cat_name] : tree[cat_name][n].form = "rgb192"}

\* C5: execute leaves at most images_per_category saved images in each category
ExecuteKeepsQuota ==
    ucPc = "done" =>
        \A i \in 1..Len(ExecCategories) : Cardinality(SavedImages(ExecCategories[i])) <= ExecQuota

OnlyTimeouts == dwr.kinds # <<>> /\ \A i \in 1..Len(dwr.kinds) : dwr.kinds[i] = "timeout"

\* C7: a _download_with_retry whose every search call times out makes exactly max_retries
\* calls, waits sleep_time * 2^retry after the timeout of each retry, and ends by
\* raising DownloadError
TimeoutsExhaustRetries ==
    OnlyTimeouts =>
        /\ Len(dwr.kinds) <= MaxRetries
        /\ dwr.waits = [i \in 1..Len(dwr.kinds) |-> SleepTime * Pow2(i - 1)]
        /\ dwr.end = (IF Len(dwr.kinds) = MaxRetries THEN "DownloadError" ELSE "none")

\* every call of one _download_with_retry has timed out and it has raised
TimedOutThroughout == OnlyTimeouts /\ dwr.end = "DownloadError" /\ Len(dwr.waits) > 1

EndedByError == dwr.kinds # <<>> /\ dwr.kinds[Len(dwr.kinds)] = "error"

\* C8: after a non-timeout exception of the search service _download_with_retry makes no
\* further call and no wait and raises DownloadError, and search_and_download goes on
\* with its next query attempt
NonTimeoutAbandonsQuery ==
    \A i \in 1..Len(dwr.kinds) :
        dwr.kinds[i] = "error" =>
            /\ i = Len(dwr.kinds)
            /\ Len(dwr.waits) = i - 1
            /\ dwr.end = "DownloadError"
            /\ ucPc # "raised"
            /\ dwr.attempt + 1 < NumQueryAttempts =>
                   ucPc = "call" /\ ucAttempt = dwr.attempt + 1 /\ retry = 0

\* a query attempt that is not the last one has ended by a non-timeout exception after
\* a timeout
ErrorAfterTimeout ==
    /\ EndedByError
    /\ Len(dwr.kinds) > 1
    /\ dwr.attempt + 1 < NumQueryAttempts
    /\ ucPc = "call"

\* C9: as long as every search call of the run has timed out or failed, no exception
\* leaves search_and_download, it returns an empty list, and no category folder holds a
\* file; execute counts nothing
FailuresAreNotFatal ==
    (ucPc # "idle" /\ ~everReturned) =>
        /\ ucPc # "raised"
        /\ downloaded_paths = <<>>
        /\ \A d \in DOMAIN tree : tree[d] = EmptyFolder
        /\ summary = EmptySummary

\* execute has completed a run in which every search call timed out or failed, and the
\* folder of every category exists
CompletedWithoutImages ==
    /\ ucPc = "done"
    /\ ~everReturned
    /\ \A i \in 1..Len(ExecCategories) : ExecCategories[i] \in DOMAIN tree

\* C12: when execute has returned, no category folder of the dataset tree holds a file
\* that validate_and_convert rejects, and no exception has left execute
NoInvalidFileLeft ==
    /\ ucPc # "raised"
    /\ ucPc = "done" =>
           \A d \in DOMAIN tree : \A n \in DOMAIN tree[d] : ValidateAndConvert(tree[d][n]).ok

\* search_and_download has returned for the category at position i
SearchReturned(i) == i < ucCat \/ (i = ucCat /\ ucPc \in {"process", "done"})

\* C13: once search_and_download has returned for a category, neither temp_download nor
\* a query folder in it remains under the category folder
ScratchRemoved ==
    \A i \in 1..Len(ExecCategories) :
        SearchReturned(i) =>
            /\ ~temp_download[ExecCategories[i]].exists
            /\ temp_download[ExecCategories[i]].folders = {}

\* the file name is <integer>.jpg
IntegerJpg(name) == name.stem = "" /\ name.suffix = ".jpg"

\* C18: every file execute leaves in a folder of the dataset tree is named <integer>.jpg,
\* and the integers of a folder are 1, 2, ... without a gap
ExecuteNumbersFromOne ==
    ucPc = "done" =>
        \A d \in DOMAIN tree :
            /\ \A n \in DOMAIN tree[d] : IntegerJpg(n)
            /\ {n.index : n \in DOMAIN tree[d]} = 1..Cardinality(DOMAIN tree[d])

\* C21: when execute has returned, the per-category counts of its summary have an entry
\* for every category it was given, also for one that obtained no image
SummaryNamesEveryCategory ==
    /\ ucPc # "raised"
    /\ ucPc = "done" =>
           \A i \in 1..Len(ExecCategories) : ExecCategories[i] \in DOMAIN summary.categories

\* C28: the list search_and_download returns names no path twice, so that no file moved
\* into the output directory was replaced by a later file of the same name
SearchReturnsDistinctPaths ==
    ucPc = "process" =>
        \A i, j \in 1..Len(downloaded_paths) : i # j => downloaded_paths[i] # downloaded_paths[j]

RECURSIVE SumOver(_, _)
SumOver(counts, names) ==
    IF names = {} THEN 0
    ELSE LET c == CHOOSE x \in names : TRUE IN counts[c] + SumOver(counts, names \ {c})

\* C29: when execute has returned, total_downloaded = total_valid + corrupted_removed,
\* total_valid is the sum of the per-category counts, and each per-category count is the
\* number of files stored in the folder of that category
SummaryIsConsistent ==
    (ucPc = "done" /\ ~validation.done) =>
        /\ summary.total_downloaded = summary.total_valid + summary.corrupted_removed
        /\ summary.total_valid = SumOver(summary.categories, DOMAIN summary.categories)
        /\ \A c \in DOMAIN summary.categories :
               \/ summary.categories[c] = Cardinality(DOMAIN tree[c])
               \/ summary.categories[c] = Cardinality(DOMAIN tree[CategoryName(c)])

\* the two totals of the summary alone
SummaryTotalsAgree ==
    (ucPc = "done" /\ ~validation.done) =>
        /\ summary.total_downloaded = summary.total_valid + summary.corrupted_removed
        /\ summary.total_valid = SumOver(summary.categories, DOMAIN summary.categories)

\* C26: after ValidateDatasetUseCase.execute no stored file fails to decode, and the
\* invalid count it reports is the number of files it removed
SweepDeletesTheInvalid ==
    validation.done =>
        /\ \A p \in FilesIn(tree) : ValidateAndConvert(tree[p.folder][p.name]).ok
        /\ validation.invalid_images = validation.removed

(***************************************************************************)
(* Properties of Category                                                  *)
(***************************************************************************)
SameLetter(p, q) == p = q \/ {p, q} = {"d", "D"}

Blank(str) == \A i \in 1..Len(str) : str[i] = " "

\* str without its first a and its last b characters, which are spaces
Core(str, a, b) == SubSeq(str, a + 1, Len(str) - b)

Margins(str) ==
    {m \in (0..Len(str)) \X (0..Len(str)) :
        /\ m[1] + m[2] <= Len(str)
        /\ Blank(SubSeq(str, 1, m[1]))
        /\ Blank(SubSeq(str, Len(str) - m[2] + 1, Len(str)))}

\* the two strings differ only in letter case and in leading or trailing spaces
Variants(x, y) ==
    \E m \in Margins(x) : \E k \in Margins(y) :
        LET u == Core(x, m[1], m[2])
            v == Core(y, k[1], k[2])
        IN  Len(u) = Len(v) /\ \A i \in 1..Len(u) : SameLetter(u[i], v[i])

\* C19: making a Category of a Category's name gives the same Category, and two strings
\* that differ only in letter case or in leading or trailing spaces give equal Categories
CategoryNormalizes ==
    /\ cat_xx.made => cat_xx = cat_x
    /\ (cat_x.made /\ cat_y.made /\ Variants(name_x, name_y)) => cat_x = cat_y

\* the Categories of " D" and of "d " have been made, and the one of the name of the first
CategoryCollapsed ==
    /\ cat_xx.made
    /\ name_x = <<" ", "D">>
    /\ name_y = <<"d", " ">>
    /\ cat_x = cat_y
    /\ cat_x.name = <<"d">>

\* C20: every Category that exists has a name that is not empty
CategoryNameNotEmpty ==
    /\ cat_x.made => cat_x.name # <<>>
    /\ cat_y.made => cat_y.name # <<>>
    /\ cat_xx.made => cat_xx.name # <<>>

(***************************************************************************)
(* Properties of AppConfig                                                 *)
(***************************************************************************)
\* a non-empty category list, positive counts, valid_pct inside (0, 1)
ValidSurface(c) ==
    /\ c.categories # <<>>
    /\ \A n \in {c.images_per_category, c.images_per_search, c.max_retries,
                  c.max_refill_rounds, c.batch_size, c.epochs} : n > 0
    /\ 0 < c.valid_pct /\ c.valid_pct < 10

\* C22: making an AppConfig raises ValueError unless the category list is non-empty,
\* every count is positive and valid_pct is inside (0, 1), and the core is never run
\* with a configuration that is not so
ConfigIsValidated ==
    /\ app.pc \in {"made", "overridden", "core"} => ValidSurface(app.given)
    /\ app.pc = "core" => ValidSurface(app.config)

(***************************************************************************)
(* Properties of TrainingMetrics                                           *)
(***************************************************************************)
\* C23: a TrainingMetrics that exists holds values of [0, 1] only, the ones it was made
\* with: a dict with a value outside raises ValueError, and nothing its caller does
\* afterwards changes a value of the record
MetricsStayInRange ==
    /\ tm.pc = "made" =>
           /\ \A name \in MetricNames : ~OutOfRange(tm.heap[tm.ref][name])
           /\ tm.heap[tm.ref] = tm.made_with
    /\ tm.pc = "ValueError" => \E name \in MetricNames : OutOfRange(tm.heap[PassedDict][name])

(***************************************************************************)
(* Properties of batch_process                                             *)
(***************************************************************************)
\* normalize and, when a size is given, resize both succeed on the item
ItemSucceeds(image, size) ==
    /\ image.file # "undecodable"
    /\ size => image.file # "truncated"

\* C24: batch_process never raises, and it returns, in input order, exactly the items on
\* which normalize and (when a size is given) resize succeed
BatchKeepsTheGood ==
    /\ batch.pc # "raised"
    /\ batch.pc = "returned" =>
           /\ \A i \in 1..Len(batch.images) :
                  ItemSucceeds(batch.images[i], batch.size) <=>
                      \E k \in 1..Len(batch.processed) : batch.processed[k] = i
           /\ \A k, l \in 1..Len(batch.processed) :
                  k < l => batch.processed[k] < batch.processed[l]

\* a call with a size has returned the first and the third of three items: the second
\* one opened but failed in resize
BatchSkippedTheMiddle ==
    /\ batch.pc = "returned"
    /\ batch.size
    /\ Len(batch.images) = 3
    /\ batch.images[2].file = "truncated"
    /\ batch.processed = <<1, 3>>

(***************************************************************************)
(* Properties of FastAIDataLoader                                          *)
(***************************************************************************)
\* some file under the path, in any folder, has an image extension
HasImageFile(ds) ==
    \/ \E f \in ds.root : ImageExtension(f)
    \/ \E d \in DOMAIN ds.sub : \E f \in ds.sub[d] : ImageExtension(f)

\* C27: create_dataloader raises, and builds no loader, when the dataset path does not
\* exist, holds no image file, or has no subfolder
DataloaderRefusesBadPath ==
    (dl.pc \in {"returned", "raised"}
     /\ (~dl.path.exists \/ ~HasImageFile(dl.path) \/ DOMAIN dl.path.sub = {}))
        => dl.pc = "raised" /\ ~dl.built

\* the path exists and holds images, all at its top level: the last check raised
DataloaderRefusedFlatPath ==
    /\ dl.pc = "raised"
    /\ dl.raised = "ValueError"
    /\ dl.path.exists
    /\ HasImageFile(dl.path)
    /\ DOMAIN dl.path.sub = {}
    /\ ~dl.built

(***************************************************************************)
(* Properties of DatasetRepositoryFS                                       *)
(***************************************************************************)
\* the item of the saved file under the category it was saved with
SavedItem ==
    [folder |-> Category(repo.category).name, name |-> repo.image.name,
     category |-> Category(repo.category).name]

\* C30: after a save that succeeded, list_categories() holds the category, and load_all()
\* and load_by_category(category) hold an item of the saved file under that category
SaveLoadRoundTrip ==
    /\ "list_categories" \in repo.called => Category(repo.category).name \in repo.listed
    /\ "load_all" \in repo.called => SavedItem \in repo.all
    /\ "load_by_category" \in repo.called => SavedItem \in repo.byCategory

\* the round trip for a supported suffix and a category name that is not empty and starts
\* with neither "temp" nor "."
SaveLoadRoundTripOfPlainNames ==
    (Supported(repo.image.name) /\ Category(repo.category).name # <<>>
     /\ ~TempOrHidden(Category(repo.category).name)) => SaveLoadRoundTrip

====
